---- MODULE Spec2Model ----
(***************************************************************************)
(* BloatBuster: the package-list normaliser, the bloatware classifier, the *)
(* command synthesiser and the session (App / PackageList) that drives     *)
(* them.  Strings are TLA+ strings, read character by character with       *)
(* Len and SubSeq, so that trimming, splitting, prefix stripping and       *)
(* lower-casing are computed as the JavaScript computes them.              *)
(***************************************************************************)
EXTENDS Integers, Sequences, FiniteSets, TLC

VARIABLES
    packageInput,      \* App state: text of the textarea
    detectedPackages,  \* App state: the DetectedPackage collection
    error,             \* App state: error message or NoError
    isProcessing,      \* App state: processing flag
    currentStep,       \* App state: 1 | 2
    memo,              \* App useMemo: commands and the summary counters
    pc,                \* position of the handleDetectBloatware invocation
    runInput,          \* packageInput as captured by the running invocation
    installedPackages, \* local of the invocation: parsePackageList's result
    detected,          \* local of the invocation: detectBloatware's result
    deviceData,        \* the reference database (bloatwareData), never mutated
    groups,            \* PackageList useMemo: groupByCategory(packages)
    searchTerms,       \* PackageList state: search term of each category
    debouncedSearchTerms \* PackageList: searchTerms after the debounce delay

vars == <<packageInput, detectedPackages, error, isProcessing, currentStep,
          memo, pc, runInput, installedPackages, detected, deviceData,
          groups, searchTerms, debouncedSearchTerms>>

-----------------------------------------------------------------------------
(* Bounds                                                                  *)

\* number of tokens a raw text of the normaliser specification is made of
MaxTokens == 4
\* number of identifiers handed to the classifier specification
MaxInstalled == 2
\* number of lines of a text pasted in the session specification
MaxLines == 3
\* number of identifiers behind a collection of the grouping specification
MaxGrouped == 3

-----------------------------------------------------------------------------
(* Strings                                                                 *)

Range(s) == {s[i] : i \in 1..Len(s)}

CharAt(s, i) == SubSeq(s, i, i)

\* the white space String.prototype.trim removes, as far as the inputs use it
IsWhitespace(c) == c \in {" ", "\t", "\r", "\n"}

RECURSIVE TrimStart(_)
TrimStart(s) ==
    IF Len(s) > 0 /\ IsWhitespace(CharAt(s, 1))
    THEN TrimStart(SubSeq(s, 2, Len(s)))
    ELSE s

RECURSIVE TrimEnd(_)
TrimEnd(s) ==
    IF Len(s) > 0 /\ IsWhitespace(CharAt(s, Len(s)))
    THEN TrimEnd(SubSeq(s, 1, Len(s) - 1))
    ELSE s

Trim(s) == TrimEnd(TrimStart(s))

StartsWith(s, p) == Len(s) >= Len(p) /\ SubSeq(s, 1, Len(p)) = p

\* String.prototype.slice(n) for 0 <= n
Slice(s, n) == SubSeq(s, n + 1, Len(s))

\* String.prototype.includes
Includes(s, p) ==
    \E i \in 1..(Len(s) + 1) :
        i + Len(p) - 1 <= Len(s) /\ SubSeq(s, i, i + Len(p) - 1) = p

\* String.prototype.split on a one-character separator
RECURSIVE Split(_, _)
Split(s, sep) ==
    IF \E i \in 1..Len(s) : CharAt(s, i) = sep
    THEN LET i == CHOOSE k \in 1..Len(s) :
                      /\ CharAt(s, k) = sep
                      /\ \A j \in 1..(k - 1) : CharAt(s, j) # sep
         IN  <<SubSeq(s, 1, i - 1)>> \o Split(SubSeq(s, i + 1, Len(s)), sep)
    ELSE <<s>>

\* Array.prototype.join
RECURSIVE Join(_, _)
Join(seq, sep) ==
    IF Len(seq) = 0 THEN ""
    ELSE IF Len(seq) = 1 THEN seq[1]
    ELSE seq[1] \o sep \o Join(Tail(seq), sep)

UpperChars == "ABCDEFGHIJKLMNOPQRSTUVWXYZ"
LowerChars == "abcdefghijklmnopqrstuvwxyz"

\* the lower-case letter of each upper-case letter
LowerOf ==
    [u \in {CharAt(UpperChars, i) : i \in 1..Len(UpperChars)} |->
        CharAt(LowerChars, CHOOSE i \in 1..Len(UpperChars) : CharAt(UpperChars, i) = u)]

LowerChar(c) == IF c \in DOMAIN LowerOf THEN LowerOf[c] ELSE c

\* String.prototype.toLowerCase
RECURSIVE ToLowerCase(_)
ToLowerCase(s) ==
    IF Len(s) = 0 THEN ""
    ELSE LowerChar(CharAt(s, 1)) \o ToLowerCase(SubSeq(s, 2, Len(s)))

\* Array.prototype.filter(Boolean) on strings: the empty string is falsy
FilterBoolean(seq) == SelectSeq(seq, LAMBDA l : l # "")

-----------------------------------------------------------------------------
(* Input Normaliser                                                        *)

PackagePrefix == "package:"

\* the map step without the test for the prefix
StripPrefix_Keep(line) == line

StripPrefix(line) ==
    IF StartsWith(line, PackagePrefix) THEN Slice(line, 8) ELSE line

\* parsePackageList without the filter that follows the map
parsePackageList_NoSecondFilter(input) ==
    LET lines    == Split(Trim(input), "\n")
        trimmed  == [i \in 1..Len(lines) |-> Trim(lines[i])]
        nonBlank == FilterBoolean(trimmed)
    IN  [i \in 1..Len(nonBlank) |-> StripPrefix(nonBlank[i])]

\* parsePackageList handing its result through a Set: later duplicates go
parsePackageList_Unique(input) ==
    LET lines    == Split(Trim(input), "\n")
        trimmed  == [i \in 1..Len(lines) |-> Trim(lines[i])]
        nonBlank == FilterBoolean(trimmed)
        stripped == [i \in 1..Len(nonBlank) |-> StripPrefix(nonBlank[i])]
        out      == FilterBoolean(stripped)
        first    == {i \in 1..Len(out) : \A j \in 1..(i - 1) : out[j] # out[i]}
    IN  [k \in 1..Cardinality(first) |->
            out[CHOOSE i \in first : Cardinality({j \in first : j < i}) = k - 1]]

parsePackageList(input) ==
    LET lines    == Split(Trim(input), "\n")
        trimmed  == [i \in 1..Len(lines) |-> Trim(lines[i])]
        nonBlank == FilterBoolean(trimmed)
        stripped == [i \in 1..Len(nonBlank) |-> StripPrefix(nonBlank[i])]
    IN  FilterBoolean(stripped)

-----------------------------------------------------------------------------
(* Optional values: an optional field is the empty set when it is          *)
(* undefined and the singleton of its value otherwise.                     *)

Undefined == {}
Some(v) == {v}
ValueOf(opt) == CHOOSE v \in opt : TRUE

\* a || b on optional strings: undefined and "" are falsy
Or(opt, other) == IF opt # Undefined /\ opt # Some("") THEN opt ELSE other

-----------------------------------------------------------------------------
(* Classifier                                                              *)

\* PackageData: a bare identifier or a PackageInfo object
StringItem(id) ==
    [isString |-> TRUE, appID |-> id, appName |-> Undefined, description |-> Undefined]
InfoItem(id, name, desc) ==
    [isString |-> FALSE, appID |-> id, appName |-> name, description |-> desc]

\* the metadata side table (data/metadata): identifier -> PackageMetadata
Metadata(name, desc, rating, impact, cat) ==
    [appName |-> name, description |-> desc, safetyRating |-> rating,
     removalImpact |-> impact, category |-> cat]

metadataTable ==
    [id \in {"com.mediatek.engineermode", "mediatek.factorymenu.ui",
             "net.com.qti.tool", "Com.Miui.Analytics"} |->
        CASE id = "com.mediatek.engineermode" ->
                 Metadata(Some("Engineer Mode"), Some("MediaTek engineering menu"),
                          Some("caution"), Some("Hidden service menu stops working"),
                          Some("Diagnostics"))
          [] id = "mediatek.factorymenu.ui" ->
                 Metadata(Some("Factory Menu"), Some("Factory test menu"),
                          Some("safe"), Undefined, Some("Factory"))
          [] id = "net.com.qti.tool" ->
                 Metadata(Some("QTI Tool"), Some("Vendor diagnostic tool"),
                          Some("risky"), Some("May break modem logging"), Undefined)
          [] id = "Com.Miui.Analytics" ->
                 Metadata(Some(""), Undefined, Undefined, Undefined, Undefined)]

\* getPackageMetadata: the entry of the side table, or undefined
getPackageMetadata(packageName) ==
    IF packageName \in DOMAIN metadataTable
    THEN Some(metadataTable[packageName])
    ELSE Undefined

\* meta?.field
MetaField(meta, field) ==
    IF meta = Undefined THEN Undefined ELSE ValueOf(meta)[field]

BRAND_PREFIXES ==
    <<"com.samsung.", "com.skms.", "com.sds.", "com.sec.", "com.xiaomi.",
      "com.miui.", "com.mi.", "com.huawei.", "com.oppo.", "com.vivo.",
      "com.oneplus.", "com.google.", "com.lge.", "com.motorola.", "com.asus.",
      "com.sony.", "com.nokia.", "com.facebook.", "com.hihonor.">>

CHIPSET_PREFIXES ==
    <<"com.qualcomm.", "com.qti.", "vendor.qti.", "com.mediatek.",
      "org.codeaurora.">>

\* categorisePackage with includes() in place of startsWith()
categorisePackage_Substring(packageName) ==
    LET lower == ToLowerCase(packageName)
    IN  IF \E i \in 1..Len(BRAND_PREFIXES) : Includes(lower, BRAND_PREFIXES[i])
        THEN "brand"
        ELSE IF \E i \in 1..Len(CHIPSET_PREFIXES) : Includes(lower, CHIPSET_PREFIXES[i])
        THEN "chipset"
        ELSE "generic"

categorisePackage(packageName) ==
    LET lower == ToLowerCase(packageName)
    IN  IF \E i \in 1..Len(BRAND_PREFIXES) : StartsWith(lower, BRAND_PREFIXES[i])
        THEN "brand"
        ELSE IF \E i \in 1..Len(CHIPSET_PREFIXES) : StartsWith(lower, CHIPSET_PREFIXES[i])
        THEN "chipset"
        ELSE "generic"

RecognisedFallback ==
    "Recognised as a legitimate application. Not identified as bloatware, but can be removed if desired."
UnrecognisedFallback ==
    "Unrecognised package - not in our verified database. Research carefully before removing."

\* the Set and the Map detectBloatware builds from deviceData.bloatwarePackages
bloatwarePackageSet(data) ==
    {data.bloatwarePackages[i].appID : i \in 1..Len(data.bloatwarePackages)}

\* Map.set overwrites: the last PackageInfo object of an identifier wins
bloatwareMetadataMap(data, packageId) ==
    LET items == data.bloatwarePackages
        idx   == {i \in 1..Len(items) : ~items[i].isString /\ items[i].appID = packageId}
    IN  IF idx = {} THEN Undefined
        ELSE LET item == items[CHOOSE i \in idx : \A j \in idx : j <= i]
             IN  Some([appName     |-> Or(item.appName, Some(packageId)),
                       description |-> Or(item.description, Some(""))])

\* the object pushed for a recognised identifier
RecognisedEntry(packageName) ==
    LET meta == getPackageMetadata(packageName)
    IN  [packageName     |-> packageName,
         appName         |-> ValueOf(Or(MetaField(meta, "appName"), Some(packageName))),
         description     |-> ValueOf(Or(MetaField(meta, "description"),
                                        Some(RecognisedFallback))),
         category        |-> "system",
         selected        |-> FALSE,
         safetyRating    |-> MetaField(meta, "safetyRating"),
         removalImpact   |-> MetaField(meta, "removalImpact"),
         packageCategory |-> MetaField(meta, "category")]

\* the bloatware branch asking the database entry before the metadata
BloatwareEntry_EntryFirst(packageName, data) ==
    LET meta      == getPackageMetadata(packageName)
        bloatMeta == bloatwareMetadataMap(data, packageName)
    IN  [packageName     |-> packageName,
         appName         |-> ValueOf(Or(MetaField(bloatMeta, "appName"),
                                     Or(MetaField(meta, "appName"), Some(packageName)))),
         description     |-> ValueOf(Or(MetaField(bloatMeta, "description"),
                                     Or(MetaField(meta, "description"), Some("")))),
         category        |-> categorisePackage(packageName),
         selected        |-> TRUE,
         safetyRating    |-> MetaField(meta, "safetyRating"),
         removalImpact   |-> MetaField(meta, "removalImpact"),
         packageCategory |-> MetaField(meta, "category")]

\* the object pushed for a bloatware identifier
BloatwareEntry(packageName, data) ==
    LET meta      == getPackageMetadata(packageName)
        bloatMeta == bloatwareMetadataMap(data, packageName)
    IN  [packageName     |-> packageName,
         appName         |-> ValueOf(Or(MetaField(meta, "appName"),
                                     Or(MetaField(bloatMeta, "appName"), Some(packageName)))),
         description     |-> ValueOf(Or(MetaField(meta, "description"),
                                     Or(MetaField(bloatMeta, "description"), Some("")))),
         category        |-> categorisePackage(packageName),
         selected        |-> TRUE,
         safetyRating    |-> MetaField(meta, "safetyRating"),
         removalImpact   |-> MetaField(meta, "removalImpact"),
         packageCategory |-> MetaField(meta, "category")]

\* the object pushed for an unknown identifier, without the fallback text
UnknownEntry_NoFallback(packageName) ==
    LET meta == getPackageMetadata(packageName)
    IN  [packageName     |-> packageName,
         appName         |-> ValueOf(Or(MetaField(meta, "appName"), Some(packageName))),
         description     |-> ValueOf(Or(MetaField(meta, "description"), Some(""))),
         category        |-> "suspicious",
         selected        |-> FALSE,
         safetyRating    |-> MetaField(meta, "safetyRating"),
         removalImpact   |-> MetaField(meta, "removalImpact"),
         packageCategory |-> MetaField(meta, "category")]

\* the object pushed for an identifier of neither set
UnknownEntry(packageName) ==
    LET meta == getPackageMetadata(packageName)
    IN  [packageName     |-> packageName,
         appName         |-> ValueOf(Or(MetaField(meta, "appName"), Some(packageName))),
         description     |-> ValueOf(Or(MetaField(meta, "description"),
                                        Some(UnrecognisedFallback))),
         category        |-> "suspicious",
         selected        |-> FALSE,
         safetyRating    |-> MetaField(meta, "safetyRating"),
         removalImpact   |-> MetaField(meta, "removalImpact"),
         packageCategory |-> MetaField(meta, "category")]

\* the loop body with the bloatware check ahead of the recognised check
ClassifyOne_BloatwareFirst(packageName, data) ==
    IF packageName \in bloatwarePackageSet(data)
    THEN BloatwareEntry(packageName, data)
    ELSE IF packageName \in Range(data.recognisedPackages)
    THEN RecognisedEntry(packageName)
    ELSE UnknownEntry(packageName)

\* the loop body without the membership test of the bloatware branch
ClassifyOne_UnknownAsBloatware(packageName, data) ==
    IF packageName \in Range(data.recognisedPackages)
    THEN RecognisedEntry(packageName)
    ELSE BloatwareEntry(packageName, data)

\* the loop body with a bloatware branch that does not pre-select
ClassifyOne_NoPreselection(packageName, data) ==
    IF packageName \in Range(data.recognisedPackages)
    THEN RecognisedEntry(packageName)
    ELSE IF packageName \in bloatwarePackageSet(data)
    THEN [BloatwareEntry(packageName, data) EXCEPT !.selected = FALSE]
    ELSE UnknownEntry(packageName)

\* the body of the loop of detectBloatware for one identifier
ClassifyOne(packageName, data) ==
    IF packageName \in Range(data.recognisedPackages)
    THEN RecognisedEntry(packageName)
    ELSE IF packageName \in bloatwarePackageSet(data)
    THEN BloatwareEntry(packageName, data)
    ELSE UnknownEntry(packageName)

\* the loop of detectBloatware: processedPackages skips later occurrences
RECURSIVE DetectLoop(_, _, _, _)
DetectLoop(installed, data, processedPackages, acc) ==
    IF Len(installed) = 0 THEN acc
    ELSE LET packageName == Head(installed)
         IN  IF packageName \in processedPackages
             THEN DetectLoop(Tail(installed), data, processedPackages, acc)
             ELSE DetectLoop(Tail(installed), data,
                             processedPackages \cup {packageName},
                             Append(acc, ClassifyOne(packageName, data)))

\* detectBloatware without the processedPackages test
detectBloatware_NoDedupe(installed, data) ==
    [i \in 1..Len(installed) |-> ClassifyOne(installed[i], data)]

detectBloatware(installed, data) == DetectLoop(installed, data, {}, <<>>)

-----------------------------------------------------------------------------
(* Grouping for display                                                    *)

Categories == {"brand", "chipset", "generic", "suspicious", "system"}

categoryLabels(category) ==
    CASE category = "brand"      -> "Brand-Specific Bloatware"
      [] category = "chipset"    -> "Chipset-Specific Bloatware"
      [] category = "generic"    -> "Generic Bloatware"
      [] category = "suspicious" -> "Suspicious Packages"
      [] category = "system"     -> "Other Installed Apps"
      [] OTHER                   -> category

DEFAULT_CATEGORY_PRIORITY == 999

categoryOrderMap(category) ==
    CASE category = "brand"      -> 0
      [] category = "chipset"    -> 1
      [] category = "generic"    -> 2
      [] category = "suspicious" -> 3
      [] category = "system"     -> 4
      [] OTHER                   -> DEFAULT_CATEGORY_PRIORITY

\* the comparator handed to Array.prototype.sort
ComparePriority(a, b) == categoryOrderMap(a.category) - categoryOrderMap(b.category)

\* Array.prototype.sort is stable: an element goes behind every element that
\* does not compare greater than it
RECURSIVE InsertSorted(_, _)
InsertSorted(sorted, p) ==
    IF Len(sorted) = 0 THEN <<p>>
    ELSE IF ComparePriority(Head(sorted), p) <= 0
    THEN <<Head(sorted)>> \o InsertSorted(Tail(sorted), p)
    ELSE <<p>> \o sorted

RECURSIVE SortByPriority(_)
SortByPriority(packages) ==
    IF Len(packages) = 0 THEN <<>>
    ELSE InsertSorted(SortByPriority(SubSeq(packages, 1, Len(packages) - 1)),
                      packages[Len(packages)])

\* the Map groupByCategory returns, as the sequence of its entries in
\* insertion order: <<label, packages>>
RECURSIVE GroupLoop(_, _)
GroupLoop(sorted, grouped) ==
    IF Len(sorted) = 0 THEN grouped
    ELSE LET pkg   == Head(sorted)
             label == categoryLabels(pkg.category)
             at    == {i \in 1..Len(grouped) : grouped[i][1] = label}
         IN  IF at = {}
             THEN GroupLoop(Tail(sorted), Append(grouped, <<label, <<pkg>>>>))
             ELSE LET i == CHOOSE k \in at : TRUE
                  IN  GroupLoop(Tail(sorted),
                                [grouped EXCEPT ![i] = <<label, Append(grouped[i][2], pkg)>>])

\* groupByCategory without the sort: groups in the order of first occurrence
groupByCategory_NoSort(packages) == GroupLoop(packages, <<>>)

groupByCategory(packages) == GroupLoop(SortByPriority(packages), <<>>)

\* groups.keys() and groups.get(category) || []
GroupKeys(grouped) == {grouped[i][1] : i \in 1..Len(grouped)}
GroupGet(grouped, category) ==
    IF category \in GroupKeys(grouped)
    THEN grouped[CHOOSE i \in 1..Len(grouped) : grouped[i][1] = category][2]
    ELSE <<>>

-----------------------------------------------------------------------------
(* Command Synthesiser: the useMemo of App                                 *)

\* the triple with clear ahead of disable
CommandsFor_ClearFirst(packageName) ==
    << "pm clear --user 0 " \o packageName,
       "pm disable-user --user 0 " \o packageName,
       "pm uninstall --user 0 " \o packageName >>

CommandsFor(packageName) ==
    << "pm disable-user --user 0 " \o packageName,
       "pm clear --user 0 " \o packageName,
       "pm uninstall --user 0 " \o packageName >>

RECURSIVE MemoLoop(_, _)
MemoLoop(packages, acc) ==
    IF Len(packages) = 0 THEN acc
    ELSE LET pkg == Head(packages)
             sel == IF pkg.selected
                    THEN [acc EXCEPT !.selectedCount = @ + 1,
                                     !.commands = @ \o CommandsFor(pkg.packageName)]
                    ELSE acc
             cnt == IF pkg.category = "suspicious"
                    THEN [sel EXCEPT !.suspiciousCount = @ + 1]
                    ELSE IF pkg.category = "system"
                    THEN [sel EXCEPT !.systemCount = @ + 1]
                    ELSE [sel EXCEPT !.bloatwareCount = @ + 1]
         IN  MemoLoop(Tail(packages), cnt)

\* the useMemo looping over the packages as sorted for display
ComputeMemo_DisplayOrder(packages) ==
    MemoLoop(SortByPriority(packages),
             [commands |-> <<>>, selectedCount |-> 0, bloatwareCount |-> 0,
              suspiciousCount |-> 0, systemCount |-> 0])

\* the useMemo counting the categories of the selected packages only
ComputeMemo_SelectedOnly(packages) ==
    MemoLoop(SelectSeq(packages, LAMBDA pkg : pkg.selected),
             [commands |-> <<>>, selectedCount |-> 0, bloatwareCount |-> 0,
              suspiciousCount |-> 0, systemCount |-> 0])

ComputeMemo(packages) ==
    MemoLoop(packages, [commands |-> <<>>, selectedCount |-> 0, bloatwareCount |-> 0,
                        suspiciousCount |-> 0, systemCount |-> 0])

COMMANDS_PER_PACKAGE == 3

\* CommandsDisplay: Math.floor(commands.length / COMMANDS_PER_PACKAGE)
packageCount(commands) == Len(commands) \div COMMANDS_PER_PACKAGE

-----------------------------------------------------------------------------
(* Inputs                                                                  *)

SeqsUpTo(S, n) == UNION {[1..k -> S] : k \in 0..n}

RECURSIVE ConcatAll(_)
ConcatAll(seq) == IF Len(seq) = 0 THEN "" ELSE seq[1] \o ConcatAll(Tail(seq))

\* raw texts of the normaliser specification: up to MaxTokens of these pieces
NormalizerTokens == {"\n", " ", "\r", "package:", "a.b", "c"}
NormalizerInputs == {ConcatAll(ts) : ts \in SeqsUpTo(NormalizerTokens, MaxTokens)}

\* identifiers of the classifier specification: brand, chipset, generic,
\* brand in mixed case, chipset prefix not at the start, no vendor prefix
ClassifierIds ==
    <<"com.samsung.android.bixby.service", "com.mediatek.engineermode",
      "com.android.egg", "Com.Miui.Analytics", "net.com.qti.tool",
      "mediatek.factorymenu.ui">>
RecognisedCandidates ==
    {"com.samsung.android.bixby.service", "com.mediatek.engineermode", "com.android.egg"}

\* the entry an identifier has in bloatwarePackages
BloatItem(id) ==
    CASE id = "com.samsung.android.bixby.service" ->
             InfoItem(id, Some("Bixby Service"), Some("Samsung voice assistant service"))
      [] id = "com.mediatek.engineermode" -> InfoItem(id, Undefined, Undefined)
      [] id = "net.com.qti.tool" ->
             InfoItem(id, Some("QTI Diagnostics"), Some("Chipset vendor tool"))
      [] id = "com.gsma.rcs" ->
             InfoItem(id, Some("RCS Service"), Some("Carrier messaging service"))
      [] OTHER -> StringItem(id)

Database(recognised, bloatware) ==
    LET ids == SelectSeq(ClassifierIds, LAMBDA id : id \in bloatware)
    IN  [recognisedPackages |-> SelectSeq(ClassifierIds, LAMBDA id : id \in recognised),
         bloatwarePackages  |-> [i \in 1..Len(ids) |-> BloatItem(ids[i])]]

ClassifierDatabases ==
    {Database(r, b) : r \in SUBSET RecognisedCandidates, b \in SUBSET Range(ClassifierIds)}
ClassifierInputs == SeqsUpTo(Range(ClassifierIds), MaxInstalled)

\* the database as shipped (data/packages), cut down to the files at hand
packageDatabase ==
    [recognisedPackages |-> <<"com.gsma.rcs", "com.wsomacp">>,
     bloatwarePackages  |-> <<StringItem("com.mediatek.engineermode"),
                              StringItem("com.android.egg")>>]
\* two other editions of it: one that does not know com.gsma.rcs, one that
\* lists it as bloatware
SessionDatabases ==
    { packageDatabase,
      [recognisedPackages |-> <<"com.wsomacp">>,
       bloatwarePackages  |-> <<StringItem("com.android.egg")>>],
      [recognisedPackages |-> <<"com.wsomacp">>,
       bloatwarePackages  |-> <<StringItem("com.android.egg"), BloatItem("com.gsma.rcs")>>] }

\* texts pasted in the session: up to MaxLines lines, and three texts that
\* hold no identifier
SessionLines == {"package:com.android.egg", "com.gsma.rcs"}
SessionTexts ==
    {Join(ls, "\n") : ls \in SeqsUpTo(SessionLines, MaxLines)}
        \cup {" \n", "package:", " package: \n\n"}

-----------------------------------------------------------------------------
(* The session: App and PackageList                                        *)

Null == {}
BlankMessage == "Please paste your package list"
NoValidMessage == "No valid packages found in the input"
\* descriptions of a failure raised while the list is parsed and classified
FailureDescriptions == {"lookup failed"}
FailureMessage(description) == "An error occurred whilst processing: " \o description

CategoryLabels == {categoryLabels(c) : c \in Categories}

InitState(input, installed, data) ==
    /\ packageInput = input
    /\ detectedPackages = <<>>
    /\ error = Null
    /\ isProcessing = FALSE
    /\ currentStep = 1
    /\ memo = ComputeMemo(<<>>)
    /\ runInput = ""
    /\ installedPackages = installed
    /\ detected = <<>>
    /\ deviceData = data
    /\ groups = groupByCategory(<<>>)
    /\ searchTerms = [category \in CategoryLabels |-> ""]
    /\ debouncedSearchTerms = [category \in CategoryLabels |-> ""]

Init ==
    /\ \E data \in SessionDatabases : InitState("", <<>>, data)
    /\ pc = "idle"

\* setDetectedPackages with a useMemo that misses its dependency
setDetectedPackages_StaleMemo(packages) ==
    /\ detectedPackages' = packages
    /\ memo' = memo
    /\ groups' = groupByCategory(packages)

\* setDetectedPackages, and the render that follows it: the useMemo of App
\* and the one of PackageList depend on the array and are recomputed for
\* every new one
setDetectedPackages(packages) ==
    /\ detectedPackages' = packages
    /\ memo' = ComputeMemo(packages)
    /\ groups' = groupByCategory(packages)

\* Textarea onChange
SetPackageInput(text) ==
    /\ text # packageInput
    /\ packageInput' = text
    /\ UNCHANGED <<detectedPackages, error, isProcessing, currentStep, memo, groups, pc,
                   runInput, installedPackages, detected, deviceData,
                   searchTerms, debouncedSearchTerms>>

\* Alert onClose
CloseError ==
    /\ error # Null
    /\ error' = Null
    /\ UNCHANGED <<packageInput, detectedPackages, isProcessing, currentStep, memo, groups,
                   pc, runInput, installedPackages, detected, deviceData,
                   searchTerms, debouncedSearchTerms>>

\* handleDetectBloatware without the test of packageInput.trim()
HandleDetectBloatware_NoBlankCheck ==
    /\ ~isProcessing
    /\ pc = "idle"
    /\ error' = Null
    /\ isProcessing' = TRUE
    /\ pc' = "processingDelay"
    /\ runInput' = packageInput
    /\ UNCHANGED <<packageInput, detectedPackages, currentStep, memo, groups,
                   installedPackages, detected, deviceData,
                   searchTerms, debouncedSearchTerms>>

\* handleDetectBloatware up to its first await; the button is in its loading
\* state while isProcessing holds and then takes no click
HandleDetectBloatware ==
    /\ ~isProcessing
    /\ pc = "idle"
    /\ IF Trim(packageInput) = ""
       THEN /\ error' = Some(BlankMessage)
            /\ UNCHANGED <<isProcessing, pc, runInput>>
       ELSE /\ error' = Null
            /\ isProcessing' = TRUE
            /\ pc' = "processingDelay"
            /\ runInput' = packageInput
    /\ UNCHANGED <<packageInput, detectedPackages, currentStep, memo, groups,
                   installedPackages, detected, deviceData,
                   searchTerms, debouncedSearchTerms>>

\* handleDetectBloatware without the test of installedPackages.length
ProcessingDelayElapsed_NoEmptyCheck ==
    /\ pc = "processingDelay"
    /\ installedPackages' = parsePackageList(runInput)
    /\ detected' = detectBloatware(parsePackageList(runInput), deviceData)
    /\ pc' = "animationDelay"
    /\ runInput' = ""
    /\ UNCHANGED <<packageInput, detectedPackages, error, isProcessing, currentStep,
                   memo, groups, deviceData,
                   searchTerms, debouncedSearchTerms>>

\* the second part reading the textarea as it is now, not as captured
ProcessingDelayElapsed_ReadsCurrentInput ==
    /\ pc = "processingDelay"
    /\ LET parsed == parsePackageList(packageInput)
       IN  IF Len(parsed) = 0
           THEN /\ error' = Some(NoValidMessage)
                /\ isProcessing' = FALSE
                /\ pc' = "idle"
                /\ UNCHANGED <<installedPackages, detected>>
           ELSE /\ installedPackages' = parsed
                /\ detected' = detectBloatware(parsed, deviceData)
                /\ pc' = "animationDelay"
                /\ UNCHANGED <<error, isProcessing>>
    /\ runInput' = ""
    /\ UNCHANGED <<packageInput, detectedPackages, currentStep, memo, groups, deviceData,
                   searchTerms, debouncedSearchTerms>>

\* the second part with a return that skips the lowering of the flag
ProcessingDelayElapsed_FlagStays ==
    /\ pc = "processingDelay"
    /\ LET parsed == parsePackageList(runInput)
       IN  IF Len(parsed) = 0
           THEN /\ error' = Some(NoValidMessage)
                /\ pc' = "idle"
                /\ UNCHANGED <<installedPackages, detected, isProcessing>>
           ELSE /\ installedPackages' = parsed
                /\ detected' = detectBloatware(parsed, deviceData)
                /\ pc' = "animationDelay"
                /\ UNCHANGED <<error, isProcessing>>
    /\ runInput' = ""
    /\ UNCHANGED <<packageInput, detectedPackages, currentStep, memo, groups, deviceData,
                   searchTerms, debouncedSearchTerms>>

\* handleDetectBloatware from the first await to the second one
ProcessingDelayElapsed ==
    /\ pc = "processingDelay"
    /\ LET parsed == parsePackageList(runInput)
       IN  IF Len(parsed) = 0
           THEN /\ error' = Some(NoValidMessage)
                /\ isProcessing' = FALSE
                /\ pc' = "idle"
                /\ UNCHANGED <<installedPackages, detected>>
           ELSE /\ installedPackages' = parsed
                /\ detected' = detectBloatware(parsed, deviceData)
                /\ pc' = "animationDelay"
                /\ UNCHANGED <<error, isProcessing>>
    /\ runInput' = ""
    /\ UNCHANGED <<packageInput, detectedPackages, currentStep, memo, groups, deviceData,
                   searchTerms, debouncedSearchTerms>>

\* a completion that carries the selection over to the entries it had before
AnimationDelayElapsed_KeepSelection ==
    /\ pc = "animationDelay"
    /\ setDetectedPackages(
           [i \in 1..Len(detected) |->
               IF \E j \in 1..Len(detectedPackages) :
                      detectedPackages[j].packageName = detected[i].packageName
               THEN LET j == CHOOSE k \in 1..Len(detectedPackages) :
                                 detectedPackages[k].packageName = detected[i].packageName
                    IN  [detected[i] EXCEPT !.selected = detectedPackages[j].selected]
               ELSE detected[i]])
    /\ currentStep' = 2
    /\ isProcessing' = FALSE
    /\ pc' = "idle"
    /\ installedPackages' = <<>>
    /\ detected' = <<>>
    /\ UNCHANGED <<packageInput, error, runInput, deviceData,
                   searchTerms, debouncedSearchTerms>>

\* a completion that publishes the first entry only
AnimationDelayElapsed_Partial ==
    /\ pc = "animationDelay"
    /\ setDetectedPackages(SubSeq(detected, 1, 1))
    /\ currentStep' = 2
    /\ isProcessing' = FALSE
    /\ pc' = "idle"
    /\ installedPackages' = <<>>
    /\ detected' = <<>>
    /\ UNCHANGED <<packageInput, error, runInput, deviceData,
                   searchTerms, debouncedSearchTerms>>

\* the catch block without the finally block after it
DetectionFails_NoFinally(description) ==
    /\ pc = "processingDelay"
    /\ error' = Some(FailureMessage(description))
    /\ pc' = "idle"
    /\ runInput' = ""
    /\ UNCHANGED <<packageInput, detectedPackages, isProcessing, currentStep, memo, groups,
                   installedPackages, detected, deviceData,
                   searchTerms, debouncedSearchTerms>>

\* parsePackageList or detectBloatware raises: the catch block reports it and
\* the finally block clears the processing flag
DetectionFails(description) ==
    /\ pc = "processingDelay"
    /\ error' = Some(FailureMessage(description))
    /\ isProcessing' = FALSE
    /\ pc' = "idle"
    /\ runInput' = ""
    /\ UNCHANGED <<packageInput, detectedPackages, currentStep, memo, groups,
                   installedPackages, detected, deviceData,
                   searchTerms, debouncedSearchTerms>>

\* handleDetectBloatware from the second await to its end
AnimationDelayElapsed ==
    /\ pc = "animationDelay"
    /\ setDetectedPackages(detected)
    /\ currentStep' = 2
    /\ isProcessing' = FALSE
    /\ pc' = "idle"
    /\ installedPackages' = <<>>
    /\ detected' = <<>>
    /\ UNCHANGED <<packageInput, error, runInput, deviceData,
                   searchTerms, debouncedSearchTerms>>

\* PackageList is rendered under this guard
PackageListShown == currentStep = 2 /\ Len(detectedPackages) > 0

\* filterPackages: the entries whose identifier, name or description holds
\* the trimmed, lower-cased term; every entry for a blank term
filterPackages(packages, term) ==
    IF Trim(term) = "" THEN packages
    ELSE LET search == ToLowerCase(Trim(term))
         IN  SelectSeq(packages,
                       LAMBDA p : \/ Includes(ToLowerCase(p.packageName), search)
                                  \/ Includes(ToLowerCase(p.appName), search)
                                  \/ Includes(ToLowerCase(p.description), search))

\* the useMemo filteredPackagesByCategory, as the function from each key of
\* groups to the entries listed under it
filteredPackagesByCategory ==
    [category \in GroupKeys(groups) |->
        filterPackages(GroupGet(groups, category), debouncedSearchTerms[category])]

ToggleFrame ==
    UNCHANGED <<packageInput, error, isProcessing, currentStep, pc, runInput,
                installedPackages, detected, deviceData,
                   searchTerms, debouncedSearchTerms>>

\* handleTogglePackage: the array handed to onPackagesChange
TogglePackageUpdated(packages, name) ==
    [i \in 1..Len(packages) |->
        IF packages[i].packageName = name
        THEN [packages[i] EXCEPT !.selected = ~@]
        ELSE packages[i]]

HandleTogglePackage(name) ==
    /\ PackageListShown
    /\ \E i \in 1..Len(detectedPackages) : detectedPackages[i].packageName = name
    /\ setDetectedPackages(TogglePackageUpdated(detectedPackages, name))
    /\ ToggleFrame

\* handleToggleAll: catPkgs and needsUpdate
CategoryPackages(packages, category) == GroupGet(groupByCategory(packages), category)

NeedsUpdate(packages, category, selected) ==
    LET catPkgs == CategoryPackages(packages, category)
    IN  /\ Len(catPkgs) # 0
        /\ \E i \in 1..Len(catPkgs) : catPkgs[i].selected # selected

\* handleToggleAll with a map copied from handleTogglePackage: it flips
ToggleAllUpdated_Flip(packages, category, selected) ==
    LET catPkgs == CategoryPackages(packages, category)
        names   == {catPkgs[i].packageName : i \in 1..Len(catPkgs)}
    IN  [i \in 1..Len(packages) |->
            IF packages[i].packageName \in names
            THEN [packages[i] EXCEPT !.selected = ~@]
            ELSE packages[i]]

\* handleToggleAll without the names.has test
ToggleAllUpdated_EveryEntry(packages, category, selected) ==
    [i \in 1..Len(packages) |->
        IF packages[i].selected # selected
        THEN [packages[i] EXCEPT !.selected = selected]
        ELSE packages[i]]

\* handleToggleAll taking its names from the entries the filter lists
ToggleAllUpdated_VisibleOnly(packages, category, selected) ==
    LET catPkgs == filterPackages(CategoryPackages(packages, category),
                                  debouncedSearchTerms[category])
        names   == {catPkgs[i].packageName : i \in 1..Len(catPkgs)}
    IN  [i \in 1..Len(packages) |->
            IF /\ packages[i].packageName \in names
               /\ packages[i].selected # selected
            THEN [packages[i] EXCEPT !.selected = selected]
            ELSE packages[i]]

\* handleToggleAll: the array handed to onPackagesChange
ToggleAllUpdated(packages, category, selected) ==
    LET catPkgs == CategoryPackages(packages, category)
        names   == {catPkgs[i].packageName : i \in 1..Len(catPkgs)}
    IN  [i \in 1..Len(packages) |->
            IF /\ packages[i].packageName \in names
               /\ packages[i].selected # selected
            THEN [packages[i] EXCEPT !.selected = selected]
            ELSE packages[i]]

\* the collection one call of handleToggleAll leaves behind
ToggleAllResult(packages, category, selected) ==
    IF NeedsUpdate(packages, category, selected)
    THEN ToggleAllUpdated(packages, category, selected)
    ELSE packages

HandleToggleAll(category, selected) ==
    /\ PackageListShown
    /\ category \in GroupKeys(groupByCategory(detectedPackages))
    /\ IF ~NeedsUpdate(detectedPackages, category, selected)
       THEN UNCHANGED <<detectedPackages, memo, groups>>
       ELSE setDetectedPackages(ToggleAllUpdated(detectedPackages, category, selected))
    /\ ToggleFrame

\* handleSelectAll with the map of handleTogglePackage
SelectAllUpdated_Toggle(packages) ==
    [i \in 1..Len(packages) |-> [packages[i] EXCEPT !.selected = ~@]]

\* handleSelectAll: the array handed to onPackagesChange
SelectAllUpdated(packages) ==
    [i \in 1..Len(packages) |-> [packages[i] EXCEPT !.selected = TRUE]]

\* handleDeselectAll: the array handed to onPackagesChange
DeselectAllUpdated(packages) ==
    [i \in 1..Len(packages) |-> [packages[i] EXCEPT !.selected = FALSE]]

HandleSelectAll ==
    /\ PackageListShown
    /\ setDetectedPackages(SelectAllUpdated(detectedPackages))
    /\ ToggleFrame

HandleDeselectAll ==
    /\ PackageListShown
    /\ setDetectedPackages(DeselectAllUpdated(detectedPackages))
    /\ ToggleFrame

\* handleSearchChange, from the onChange of the search field of a category
HandleSearchChange(category, value) ==
    /\ PackageListShown
    /\ category \in GroupKeys(groups)
    /\ value # searchTerms[category]
    /\ searchTerms' = [searchTerms EXCEPT ![category] = value]
    /\ UNCHANGED <<packageInput, detectedPackages, error, isProcessing, currentStep,
                   memo, groups, pc, runInput, installedPackages, detected, deviceData,
                   debouncedSearchTerms>>

\* useDebouncedValue: SEARCH_DEBOUNCE_MS after the last change the debounced
\* terms take the value of searchTerms
DebounceElapsed ==
    /\ debouncedSearchTerms # searchTerms
    /\ debouncedSearchTerms' = searchTerms
    /\ UNCHANGED <<packageInput, detectedPackages, error, isProcessing, currentStep,
                   memo, groups, pc, runInput, installedPackages, detected, deviceData,
                   searchTerms>>

Next ==
    \/ \E text \in SessionTexts : SetPackageInput(text)
    \/ CloseError
    \/ HandleDetectBloatware
    \/ ProcessingDelayElapsed
    \/ \E description \in FailureDescriptions : DetectionFails(description)
    \/ AnimationDelayElapsed
    \/ \E i \in 1..Len(detectedPackages) :
           HandleTogglePackage(detectedPackages[i].packageName)
    \/ \E category \in CategoryLabels, selected \in BOOLEAN :
           HandleToggleAll(category, selected)
    \/ HandleSelectAll
    \/ HandleDeselectAll

Spec == Init /\ [][Next]_vars

-----------------------------------------------------------------------------
(* The normaliser alone: every raw text, then parsePackageList             *)

NormalizerInit ==
    /\ \E input \in NormalizerInputs : InitState(input, <<>>, packageDatabase)
    /\ pc = "raw"

NormalizerParse ==
    /\ pc = "raw"
    /\ installedPackages' = parsePackageList(packageInput)
    /\ pc' = "parsed"
    /\ UNCHANGED <<packageInput, detectedPackages, error, isProcessing, currentStep,
                   memo, groups, runInput, detected, deviceData,
                   searchTerms, debouncedSearchTerms>>

NormalizerNext == NormalizerParse

SpecNormalizer == NormalizerInit /\ [][NormalizerNext]_vars

-----------------------------------------------------------------------------
(* The classifier alone: every database and identifier sequence, then      *)
(* detectBloatware                                                         *)

ClassifierInit ==
    /\ \E data \in ClassifierDatabases, installed \in ClassifierInputs :
           InitState("", installed, data)
    /\ pc = "installed"

ClassifierDetect ==
    /\ pc = "installed"
    /\ detected' = detectBloatware(installedPackages, deviceData)
    /\ pc' = "classified"
    /\ UNCHANGED <<packageInput, detectedPackages, error, isProcessing, currentStep,
                   memo, groups, runInput, installedPackages, deviceData,
                   searchTerms, debouncedSearchTerms>>

ClassifierNext == ClassifierDetect

SpecClassifier == ClassifierInit /\ [][ClassifierNext]_vars

-----------------------------------------------------------------------------
(* The session over one list of three identifiers: a bloatware identifier  *)
(* without metadata, an identifier of neither set, a recognised one.       *)

ScenarioText ==
    "package:com.android.egg\npackage:com.unknown.test123\npackage:com.android.chrome"

ScenarioDatabase ==
    [recognisedPackages |-> <<"com.android.chrome">>,
     bloatwarePackages  |-> packageDatabase.bloatwarePackages]

\* the textarea holds the list, a bare prefix or nothing
ScenarioTexts == {"", PackagePrefix, ScenarioText}

ScenarioInit ==
    /\ InitState("", <<>>, ScenarioDatabase)
    /\ pc = "idle"

ScenarioNext ==
    \/ \E text \in ScenarioTexts : SetPackageInput(text)
    \/ CloseError
    \/ HandleDetectBloatware
    \/ ProcessingDelayElapsed
    \/ \E description \in FailureDescriptions : DetectionFails(description)
    \/ AnimationDelayElapsed
    \/ \E i \in 1..Len(detectedPackages) :
           HandleTogglePackage(detectedPackages[i].packageName)
    \/ \E category \in CategoryLabels, selected \in BOOLEAN :
           HandleToggleAll(category, selected)
    \/ HandleSelectAll
    \/ HandleDeselectAll

SpecScenario == ScenarioInit /\ [][ScenarioNext]_vars

\* the two timers of a run fire: the part of handleDetectBloatware after an
\* await is run by the event loop once its delay has passed
SpecScenarioFair ==
    /\ SpecScenario
    /\ WF_vars((\E description \in FailureDescriptions : DetectionFails(description))
                   \/ ProcessingDelayElapsed)
    /\ WF_vars(AnimationDelayElapsed)

-----------------------------------------------------------------------------
(* The session with the search fields: two entries of one category, and    *)
(* terms that list one of them only.                                       *)

SearchText == "package:com.android.egg\ncom.gsma.rcs"

SearchDatabase ==
    [recognisedPackages |-> <<"com.wsomacp">>,
     bloatwarePackages  |-> <<StringItem("com.android.egg"), BloatItem("com.gsma.rcs")>>]

SearchTexts == {"", PackagePrefix, SearchText}

\* typed into a search field: nothing, a term of the identifier of one entry
\* with a trailing blank, a term of the description of the other in capitals
SearchTerms == {"", "Egg ", "CARRIER"}

SearchInit ==
    /\ InitState("", <<>>, SearchDatabase)
    /\ pc = "idle"

SearchNext ==
    \/ \E text \in SearchTexts : SetPackageInput(text)
    \/ CloseError
    \/ HandleDetectBloatware
    \/ ProcessingDelayElapsed
    \/ \E description \in FailureDescriptions : DetectionFails(description)
    \/ AnimationDelayElapsed
    \/ \E i \in 1..Len(detectedPackages) :
           HandleTogglePackage(detectedPackages[i].packageName)
    \/ \E category \in CategoryLabels, selected \in BOOLEAN :
           HandleToggleAll(category, selected)
    \/ HandleSelectAll
    \/ HandleDeselectAll
    \/ \E category \in CategoryLabels, value \in SearchTerms :
           HandleSearchChange(category, value)
    \/ DebounceElapsed

SpecSearch == SearchInit /\ [][SearchNext]_vars

-----------------------------------------------------------------------------
(* groupByCategory alone: a collection of every category, then its groups  *)

\* two brand identifiers, a chipset one, a generic one, a recognised one; the
\* sixth identifier is in neither list
GroupingDatabase ==
    Database({"com.android.egg"},
             {"com.samsung.android.bixby.service", "com.mediatek.engineermode",
              "Com.Miui.Analytics", "net.com.qti.tool"})

GroupingCollections ==
    {detectBloatware(installed, GroupingDatabase) :
         installed \in SeqsUpTo(Range(ClassifierIds), MaxGrouped)}

GroupingInit ==
    /\ \E packages \in GroupingCollections :
           /\ detectedPackages = packages
           /\ memo = ComputeMemo(packages)
    /\ packageInput = ""
    /\ error = Null
    /\ isProcessing = FALSE
    /\ currentStep = 2
    /\ runInput = ""
    /\ installedPackages = <<>>
    /\ detected = <<>>
    /\ deviceData = GroupingDatabase
    /\ groups = <<>>
    /\ searchTerms = [category \in CategoryLabels |-> ""]
    /\ debouncedSearchTerms = [category \in CategoryLabels |-> ""]
    /\ pc = "collection"

\* the render of PackageList: its useMemo calls groupByCategory
GroupingRender ==
    /\ pc = "collection"
    /\ groups' = groupByCategory(detectedPackages)
    /\ pc' = "grouped"
    /\ UNCHANGED <<packageInput, detectedPackages, error, isProcessing, currentStep,
                   memo, runInput, installedPackages, detected, deviceData,
                   searchTerms, debouncedSearchTerms>>

GroupingNext == GroupingRender

SpecGrouping == GroupingInit /\ [][GroupingNext]_vars

-----------------------------------------------------------------------------
(* Properties                                                              *)

NamesOf(packages) == [i \in 1..Len(packages) |-> packages[i].packageName]

FirstIndex(seq, x) ==
    CHOOSE i \in 1..Len(seq) : seq[i] = x /\ \A j \in 1..(i - 1) : seq[j] # x

RecognisedIds == Range(deviceData.recognisedPackages)
BloatwareIds ==
    {deviceData.bloatwarePackages[i].appID : i \in 1..Len(deviceData.bloatwarePackages)}

SelectedEntries == SelectSeq(detectedPackages, LAMBDA p : p.selected)

\* the identifier a command ends with: what follows "--user 0 "
TargetOf(command) ==
    LET marker == "--user 0 "
        hits == {i \in 1..Len(command) :
                     /\ i + Len(marker) - 1 <= Len(command)
                     /\ SubSeq(command, i, i + Len(marker) - 1) = marker}
        at == CHOOSE i \in hits : \A j \in hits : i <= j
    IN  Slice(command, at + Len(marker) - 1)

\* C1: every element parsePackageList returns is a non-empty string without
\* leading or trailing white space that does not begin with "package:".
C1_NormalizerOutputClean ==
    pc = "parsed" =>
        \A i \in 1..Len(installedPackages) :
            /\ installedPackages[i] # ""
            /\ Trim(installedPackages[i]) = installedPackages[i]
            /\ ~StartsWith(installedPackages[i], PackagePrefix)

\* C2: parsePackageList is idempotent on its own output: applied to its
\* result joined by newlines it returns that result again.
C2_NormalizerIdempotent ==
    pc = "parsed" =>
        parsePackageList(Join(installedPackages, "\n")) = installedPackages

\* C3: detectBloatware returns one entry per distinct input identifier, in
\* the order of the first occurrences, and no packageName occurs twice in the
\* collection of the session, whatever detections and toggles came before.
C3_UniqueFirstOccurrence ==
    /\ \A i, j \in 1..Len(detectedPackages) :
           i # j => detectedPackages[i].packageName # detectedPackages[j].packageName
    /\ pc = "animationDelay" =>
           /\ Range(NamesOf(detected)) = Range(installedPackages)
           /\ Len(detected) = Cardinality(Range(installedPackages))
           /\ \A i, j \in 1..Len(detected) :
                  i < j => FirstIndex(installedPackages, detected[i].packageName)
                               < FirstIndex(installedPackages, detected[j].packageName)

\* a run classified the input a, b, a while an earlier collection is shown
C3_Witness ==
    /\ pc = "animationDelay"
    /\ Len(installedPackages) = 3
    /\ installedPackages[1] = installedPackages[3]
    /\ installedPackages[1] # installedPackages[2]
    /\ Len(detected) = 2
    /\ Len(detectedPackages) = 2
    /\ \E i \in 1..2 : detectedPackages[i].selected

\* C4: an identifier in both recognisedPackages and bloatwarePackages is
\* classified system and not selected, also with a brand or chipset prefix.
C4_RecognisedBeforeBloatware ==
    pc = "classified" =>
        \A i \in 1..Len(detected) :
            detected[i].packageName \in RecognisedIds \cap BloatwareIds =>
                detected[i].category = "system" /\ ~detected[i].selected

\* a brand-prefixed and a chipset-prefixed identifier of both sets were classified
C4_Witness ==
    /\ pc = "classified"
    /\ {"com.samsung.android.bixby.service", "com.mediatek.engineermode"}
           \subseteq (RecognisedIds \cap BloatwareIds)
    /\ NamesOf(detected) =
           <<"com.samsung.android.bixby.service", "com.mediatek.engineermode">>

\* C5: an identifier in neither set is classified suspicious and not
\* selected, whatever its prefix.
C5_UnknownIsSuspicious ==
    pc = "classified" =>
        \A i \in 1..Len(detected) :
            detected[i].packageName \notin RecognisedIds \cup BloatwareIds =>
                detected[i].category = "suspicious" /\ ~detected[i].selected

\* a brand-prefixed and a chipset-prefixed identifier of neither set were classified
C5_Witness ==
    /\ pc = "classified"
    /\ NamesOf(detected) = <<"com.mediatek.engineermode", "Com.Miui.Analytics">>
    /\ {"com.mediatek.engineermode", "Com.Miui.Analytics"}
           \cap (RecognisedIds \cup BloatwareIds) = {}

\* C6: right after detection an entry is selected exactly if its identifier
\* is bloatware and not recognised, and exactly those entries have a category
\* among brand, chipset and generic.
C6_PreselectedIffBloatware ==
    pc = "classified" =>
        \A i \in 1..Len(detected) :
            LET bloat == detected[i].packageName \in BloatwareIds \ RecognisedIds
            IN  /\ detected[i].selected <=> bloat
                /\ detected[i].category \in {"brand", "chipset", "generic"} <=> bloat

\* a bloatware identifier and one that is not bloatware were classified together
C6_Witness ==
    /\ pc = "classified"
    /\ Len(detected) = 2
    /\ detected[1].packageName \in BloatwareIds \ RecognisedIds
    /\ detected[1].selected
    /\ detected[2].packageName \notin BloatwareIds
    /\ ~detected[2].selected

\* the prefix test of C7, character by character
HasPrefixIgnoringCase(id, prefix) ==
    /\ Len(id) >= Len(prefix)
    /\ \A k \in 1..Len(prefix) : LowerChar(CharAt(id, k)) = CharAt(prefix, k)

ReferenceCategory(id) ==
    IF \E p \in Range(BRAND_PREFIXES) : HasPrefixIgnoringCase(id, p) THEN "brand"
    ELSE IF \E p \in Range(CHIPSET_PREFIXES) : HasPrefixIgnoringCase(id, p) THEN "chipset"
    ELSE "generic"

\* C7: the category of a bloatware identifier is brand if its lower-cased
\* form starts with a brand prefix, else chipset if it starts with a chipset
\* prefix, else generic; a prefix further inside the identifier does not count.
C7_PrefixClassification ==
    pc = "classified" =>
        \A i \in 1..Len(detected) :
            detected[i].packageName \in BloatwareIds \ RecognisedIds =>
                /\ detected[i].category = ReferenceCategory(detected[i].packageName)
                /\ detected[i].packageName = "Com.Miui.Analytics"
                       => detected[i].category = "brand"
                /\ detected[i].packageName \in {"net.com.qti.tool", "mediatek.factorymenu.ui"}
                       => detected[i].category = "generic"

\* a mixed-case brand identifier and one with a chipset prefix inside were
\* classified as bloatware
C7_Witness ==
    /\ pc = "classified"
    /\ NamesOf(detected) = <<"Com.Miui.Analytics", "net.com.qti.tool">>
    /\ {"Com.Miui.Analytics", "net.com.qti.tool"} \subseteq BloatwareIds \ RecognisedIds

\* C8: the command list holds three commands per selected entry: disable,
\* clear, uninstall of the i-th selected entry at positions 3i, 3i+1, 3i+2.
C8_CommandTriples ==
    /\ Len(memo.commands) = 3 * Len(SelectedEntries)
    /\ \A i \in 0..(Len(SelectedEntries) - 1) :
           LET p == SelectedEntries[i + 1].packageName
           IN  /\ memo.commands[3 * i + 1] = "pm disable-user --user 0 " \o p
               /\ memo.commands[3 * i + 2] = "pm clear --user 0 " \o p
               /\ memo.commands[3 * i + 3] = "pm uninstall --user 0 " \o p

\* two entries are selected and six commands are shown
C8_Witness ==
    /\ PackageListShown
    /\ Len(SelectedEntries) = 2
    /\ Len(memo.commands) = 6

\* C9: the identifiers of the successive triples are the selected entries in
\* collection order, not in the category order of the displayed groups.
C9_CollectionOrder ==
    /\ Len(memo.commands) % 3 = 0
    /\ Len(memo.commands) \div 3 = Len(SelectedEntries)
    /\ \A k \in 1..Len(memo.commands) :
           TargetOf(memo.commands[k]) = NamesOf(SelectedEntries)[((k - 1) \div 3) + 1]
    /\ \A i, j \in 1..Len(SelectedEntries) :
           i < j => FirstIndex(NamesOf(detectedPackages), SelectedEntries[i].packageName)
                        < FirstIndex(NamesOf(detectedPackages), SelectedEntries[j].packageName)

\* both entries are selected and the display shows them in the other order
C9_Witness ==
    /\ PackageListShown
    /\ Len(detectedPackages) = 2
    /\ detectedPackages[1].selected /\ detectedPackages[2].selected
    /\ categoryOrderMap(detectedPackages[1].category)
           > categoryOrderMap(detectedPackages[2].category)
    /\ groupByCategory(detectedPackages)[1][2][1] = detectedPackages[2]

\* C10: the command list shown is the synthesis of the current collection:
\* a selected entry has its three commands, an unselected one has none.
C10_CommandsFollowSelection ==
    /\ memo.commands = ComputeMemo(detectedPackages).commands
    /\ \A i \in 1..Len(detectedPackages) :
           LET name == detectedPackages[i].packageName
               own  == {k \in 1..Len(memo.commands) : TargetOf(memo.commands[k]) = name}
           IN  Cardinality(own) = IF detectedPackages[i].selected THEN 3 ELSE 0

\* after toggles: a bloatware entry is deselected, another entry is selected
C10_Witness ==
    /\ PackageListShown
    /\ \E i, j \in 1..Len(detectedPackages) :
           /\ detectedPackages[i].category = "generic"
           /\ ~detectedPackages[i].selected
           /\ detectedPackages[j].category \in {"system", "suspicious"}
           /\ detectedPackages[j].selected
    /\ Len(memo.commands) = 3

-----------------------------------------------------------------------------
(* Selection: frame, no-op and round trip                                  *)

\* the entries' fields other than selected, in collection order
Unselected(packages) ==
    [i \in 1..Len(packages) |-> [packages[i] EXCEPT !.selected = FALSE]]

\* positions of the collection whose entry is displayed under the label
InCategory(packages, category) ==
    {i \in 1..Len(packages) : categoryLabels(packages[i].category) = category}

\* positions whose selected flag differs between two collections of one length
ChangedSelection(before, after) ==
    {i \in 1..Len(before) : after[i].selected # before[i].selected}

\* C11: a toggle action (toggle-one, category select/deselect-all, Select All,
\* Clear) changes nothing but the selected flag of entries in its targeted set:
\* entries outside it, every other field, the length and the order of the
\* collection are as before.
C11_ToggleFrame ==
    PackageListShown =>
        /\ \A n \in 1..Len(detectedPackages) :
               LET name  == detectedPackages[n].packageName
                   after == TogglePackageUpdated(detectedPackages, name)
               IN  /\ Unselected(after) = Unselected(detectedPackages)
                   /\ ChangedSelection(detectedPackages, after)
                          = {j \in 1..Len(detectedPackages) :
                                 detectedPackages[j].packageName = name}
        /\ \A category \in CategoryLabels, selected \in BOOLEAN :
               LET after == ToggleAllResult(detectedPackages, category, selected)
               IN  /\ Unselected(after) = Unselected(detectedPackages)
                   /\ ChangedSelection(detectedPackages, after)
                          \subseteq InCategory(detectedPackages, category)
        /\ Unselected(SelectAllUpdated(detectedPackages)) = Unselected(detectedPackages)
        /\ Unselected(DeselectAllUpdated(detectedPackages)) = Unselected(detectedPackages)

\* two entries of different categories, the bloatware one deselected by a
\* toggle and the other one still as classified
C11_Witness ==
    /\ PackageListShown
    /\ pc = "idle"
    /\ Len(detectedPackages) = 2
    /\ detectedPackages[1].category = "generic"
    /\ ~detectedPackages[1].selected
    /\ detectedPackages[2].category = "system"
    /\ ~detectedPackages[2].selected

\* C12: a category select/deselect-all, a Select All or a Clear whose targeted
\* entries all hold the target value already is a no-op: the collection, and
\* with it the command list, is equal to what it was.
C12_NoOpWhenAlreadySet ==
    PackageListShown =>
        /\ \A category \in CategoryLabels, selected \in BOOLEAN :
               (\A i \in InCategory(detectedPackages, category) :
                    detectedPackages[i].selected = selected)
                   => LET after == ToggleAllResult(detectedPackages, category, selected)
                      IN  /\ after = detectedPackages
                          /\ ComputeMemo(after).commands = memo.commands
        /\ (\A i \in 1..Len(detectedPackages) : detectedPackages[i].selected)
               => LET after == SelectAllUpdated(detectedPackages)
                  IN  /\ after = detectedPackages
                      /\ ComputeMemo(after).commands = memo.commands
        /\ (\A i \in 1..Len(detectedPackages) : ~detectedPackages[i].selected)
               => LET after == DeselectAllUpdated(detectedPackages)
                  IN  /\ after = detectedPackages
                      /\ ComputeMemo(after).commands = memo.commands

\* every entry is selected, so Select All and the select-all of each category
\* shown have nothing to change
C12_Witness ==
    /\ PackageListShown
    /\ Len(detectedPackages) = 2
    /\ \A i \in 1..Len(detectedPackages) : detectedPackages[i].selected
    /\ Len(memo.commands) = 6

\* C13: a select-all followed by a deselect-all of the same category leaves
\* every entry of that category unselected and every entry of the other
\* categories selected as it was before the pair.
C13_SelectThenDeselect ==
    PackageListShown =>
        \A category \in GroupKeys(groupByCategory(detectedPackages)) :
            LET first  == ToggleAllResult(detectedPackages, category, TRUE)
                second == ToggleAllResult(first, category, FALSE)
            IN  /\ Len(second) = Len(detectedPackages)
                /\ \A i \in 1..Len(detectedPackages) :
                       IF i \in InCategory(detectedPackages, category)
                       THEN ~second[i].selected
                       ELSE second[i] = detectedPackages[i]

\* the category holds two entries, one selected and one not, next to nothing
\* else: the pair of actions has both to select and to deselect
C13_Witness ==
    /\ PackageListShown
    /\ Len(detectedPackages) = 2
    /\ detectedPackages[1].category = detectedPackages[2].category
    /\ detectedPackages[1].selected
    /\ ~detectedPackages[2].selected

-----------------------------------------------------------------------------
(* Detection runs                                                          *)

\* the selection the classifier gives an identifier
DefaultSelected(packageName) ==
    packageName \in BloatwareIds /\ packageName \notin RecognisedIds

\* empty or made of white space only
Blank(text) == \A i \in 1..Len(text) : IsWhitespace(CharAt(text, i))

\* C14: detection is idempotent and resets the selection: a run that completes
\* leaves the classification of its input under the database, every entry with
\* its default selection, whatever the collection and its selection were when
\* the run began or became while it was under way.
C14_DetectionResetsSelection ==
    [][ (pc = "animationDelay" /\ pc' = "idle")
           => /\ detectedPackages' = detectBloatware(installedPackages, deviceData)
              /\ \A i \in 1..Len(detectedPackages') :
                     detectedPackages'[i].selected
                         = DefaultSelected(detectedPackages'[i].packageName)
      ]_vars

\* a second run over the same identifiers is about to complete while the
\* collection of the first run holds a selection made by hand
C14_Witness ==
    /\ pc = "animationDelay"
    /\ PackageListShown
    /\ NamesOf(detected) = NamesOf(detectedPackages)
    /\ \E i \in 1..Len(detectedPackages) :
           detectedPackages[i].selected # DefaultSelected(detectedPackages[i].packageName)

\* C15: a detection triggered on blank input sets the blank-input message and
\* does nothing else: no normalisation, no classification, the processing flag
\* stays down, the collection and the step are as before.
C15_BlankInputRejected ==
    [][ (HandleDetectBloatware /\ Blank(packageInput))
           => /\ error' = Some(BlankMessage)
              /\ ~isProcessing'
              /\ pc' = "idle"
              /\ UNCHANGED <<installedPackages, detected, detectedPackages,
                             currentStep, memo>>
      ]_vars

\* the message is up over a text of white space, and no run is under way
C15_Witness ==
    /\ error = Some(BlankMessage)
    /\ packageInput = " \n"
    /\ pc = "idle"
    /\ ~isProcessing

\* C16: a run whose input is not blank and yields no identifier sets the
\* no-valid-packages message and halts before classification: the collection
\* and the step are unchanged and the processing flag ends down.
C16_NoValidPackagesRejected ==
    [][ ( /\ pc = "processingDelay"
          /\ pc' # "processingDelay"
          /\ Len(parsePackageList(runInput)) = 0
          /\ ProcessingDelayElapsed )
           => /\ ~Blank(runInput)
              /\ error' = Some(NoValidMessage)
              /\ ~isProcessing'
              /\ pc' = "idle"
              /\ UNCHANGED <<detected, detectedPackages, currentStep, memo>>
      ]_vars

\* the message is up over a text of prefix lines, before any collection
C16_Witness ==
    /\ error = Some(NoValidMessage)
    /\ packageInput = " package: \n\n"
    /\ pc = "idle"
    /\ ~isProcessing
    /\ currentStep = 1
    /\ detectedPackages = <<>>

\* C17: detection is all-or-nothing. A step leaves the collection as it was,
\* or changes selected flags only (a toggle), or is the completion of a run and
\* installs one entry for each identifier of the run's input; a step that puts
\* up an error leaves the collection and the step as they were.
C17_AllOrNothing ==
    [][ /\ \/ /\ detectedPackages' = detectedPackages
              /\ currentStep' = currentStep
           \/ /\ pc' = pc
              /\ currentStep' = currentStep
              /\ Unselected(detectedPackages') = Unselected(detectedPackages)
           \/ /\ pc = "animationDelay"
              /\ pc' = "idle"
              /\ currentStep' = 2
              /\ Range(NamesOf(detectedPackages')) = Range(installedPackages)
              /\ Len(detectedPackages') = Cardinality(Range(installedPackages))
              /\ \A i \in 1..Len(detectedPackages') :
                     detectedPackages'[i]
                         = ClassifyOne(detectedPackages'[i].packageName, deviceData)
        /\ (error' # Null /\ error' # error)
               => /\ detectedPackages' = detectedPackages
                  /\ currentStep' = currentStep
                  /\ memo' = memo
                  /\ ~isProcessing'
      ]_vars

\* a run over a collection with a selection made by hand has failed
C17_Witness ==
    /\ error = Some(FailureMessage("lookup failed"))
    /\ pc = "idle"
    /\ PackageListShown
    /\ Len(detectedPackages) = 2
    /\ \E i \in 1..Len(detectedPackages) :
           detectedPackages[i].selected # DefaultSelected(detectedPackages[i].packageName)

-----------------------------------------------------------------------------
(* Normalizer emptiness, descriptions, and the three-identifier scenario   *)

\* C18: the Normalizer's output is empty if and only if the input has no line
\* that, after trimming, is non-blank and different from the bare "package:".
C18_EmptyIffNoIdentifierLine ==
    pc = "parsed" =>
        LET lines == Split(packageInput, "\n")
        IN  (Len(installedPackages) = 0)
                <=> \A i \in 1..Len(lines) : Trim(lines[i]) \in {"", PackagePrefix}

\* nothing comes out of a text that holds a bare prefix line
C18_Witness ==
    /\ pc = "parsed"
    /\ installedPackages = <<>>
    /\ Includes(packageInput, PackagePrefix)
    /\ Includes(packageInput, "\n")

\* the description a bloatwarePackages item of the identifier carries, if any
EntryDescriptions(packageName) ==
    {deviceData.bloatwarePackages[i].description :
         i \in {k \in 1..Len(deviceData.bloatwarePackages) :
                    deviceData.bloatwarePackages[k].appID = packageName}}
        \ {Undefined, Some("")}

\* the description the metadata table has for the identifier, if any
MetadataDescriptions(packageName) ==
    {MetaField(getPackageMetadata(packageName), "description")} \ {Undefined, Some("")}

\* C19 as stated: every DetectedPackage the Classifier produces, in all three
\* branches and with or without metadata, has a non-empty description.
C19_DescriptionPopulated ==
    pc = "classified" =>
        \A i \in 1..Len(detected) : detected[i].description # ""

\* C19 amended: an entry of the recognised or of the unknown branch has a
\* non-empty description; an entry of the bloatware branch has an empty one
\* exactly when neither the metadata nor the bloatware item supplies one.
C19_DescriptionBySource ==
    pc = "classified" =>
        \A i \in 1..Len(detected) :
            LET p == detected[i]
            IN  IF p.packageName \in BloatwareIds \ RecognisedIds
                THEN (p.description = "")
                         <=> /\ MetadataDescriptions(p.packageName) = {}
                             /\ EntryDescriptions(p.packageName) = {}
                ELSE p.description # ""

\* a bloatware entry without any description next to an unknown entry that
\* has the fallback text
C19_Witness ==
    /\ pc = "classified"
    /\ Len(detected) = 2
    /\ detected[1].selected
    /\ detected[1].description = ""
    /\ detected[2].category = "suspicious"
    /\ detected[2].description = UnrecognisedFallback

\* C20: the list com.android.egg, com.unknown.test123, com.android.chrome (egg
\* bloatware without metadata, chrome recognised, test123 in neither set) is
\* classified as exactly three entries in that order: egg generic and selected,
\* test123 suspicious, unselected, with the unrecognised fallback, chrome
\* system, unselected, with the recognised fallback; with only egg selected the
\* command list is exactly three commands, all of them for egg.
C20_EndToEnd ==
    /\ pc = "animationDelay" =>
           /\ NamesOf(detected)
                  = <<"com.android.egg", "com.unknown.test123", "com.android.chrome">>
           /\ [i \in 1..3 |-> detected[i].category] = <<"generic", "suspicious", "system">>
           /\ [i \in 1..3 |-> detected[i].selected] = <<TRUE, FALSE, FALSE>>
           /\ detected[2].description = UnrecognisedFallback
           /\ detected[3].description = RecognisedFallback
    /\ currentStep = 2 =>
           /\ NamesOf(detectedPackages)
                  = <<"com.android.egg", "com.unknown.test123", "com.android.chrome">>
           /\ [i \in 1..3 |-> detectedPackages[i].selected] = <<TRUE, FALSE, FALSE>>
                  => /\ Len(memo.commands) = 3
                     /\ \A k \in 1..3 : TargetOf(memo.commands[k]) = "com.android.egg"

\* the list has been classified and the selection is the one detection made
C20_Witness ==
    /\ currentStep = 2
    /\ pc = "idle"
    /\ Len(detectedPackages) = 3
    /\ [i \in 1..3 |-> detectedPackages[i].selected] = <<TRUE, FALSE, FALSE>>
    /\ Len(memo.commands) = 3
    /\ detectedPackages[1].packageName = "com.android.egg"

-----------------------------------------------------------------------------
(* Normalizer order, enrichment, grouping                                  *)

\* a line without its leading "package:", taken off once
WithoutPrefixOnce(line) ==
    IF Len(line) >= Len(PackagePrefix) /\ SubSeq(line, 1, Len(PackagePrefix)) = PackagePrefix
    THEN SubSeq(line, Len(PackagePrefix) + 1, Len(line))
    ELSE line

\* C21: the Normalizer keeps the line order and does not deduplicate: its
\* output is, in input order, each non-blank trimmed line with "package:"
\* removed once from its start, the lines that are empty afterwards dropped;
\* a line that occurs k times gives k elements.
C21_OrderKeptNoDedupe ==
    pc = "parsed" =>
        LET lines == Split(packageInput, "\n")
            kept  == {i \in 1..Len(lines) : WithoutPrefixOnce(Trim(lines[i])) # ""}
            nth(k) == CHOOSE i \in kept : Cardinality({j \in kept : j < i}) = k - 1
        IN  /\ Len(installedPackages) = Cardinality(kept)
            /\ \A k \in 1..Len(installedPackages) :
                   installedPackages[k] = WithoutPrefixOnce(Trim(lines[nth(k)]))
            /\ \A i \in kept :
                   Cardinality({k \in 1..Len(installedPackages) :
                                    installedPackages[k] = WithoutPrefixOnce(Trim(lines[i]))})
                       = Cardinality({j \in kept : WithoutPrefixOnce(Trim(lines[j]))
                                                       = WithoutPrefixOnce(Trim(lines[i]))})

\* one identifier on two lines, once with the prefix: two elements
C21_Witness ==
    /\ pc = "parsed"
    /\ packageInput = "package:c\nc"
    /\ installedPackages = <<"c", "c">>

\* the non-empty app name the metadata table or a bloatwarePackages item of the
\* identifier carries, if any
MetadataNames(packageName) ==
    {MetaField(getPackageMetadata(packageName), "appName")} \ {Undefined, Some("")}
EntryNames(packageName) ==
    {deviceData.bloatwarePackages[i].appName :
         i \in {k \in 1..Len(deviceData.bloatwarePackages) :
                    deviceData.bloatwarePackages[k].appID = packageName}}
        \ {Undefined, Some("")}

\* the value of the first of the sources that has one, else the last resort
FirstOf(sources, lastResort) ==
    LET having == {k \in 1..Len(sources) : sources[k] # {}}
    IN  IF having = {} THEN lastResort
        ELSE ValueOf(CHOOSE v \in sources[CHOOSE k \in having : \A j \in having : k <= j] : TRUE)

\* C22: enrichment precedence. appName is the metadata app name, else in the
\* bloatware branch the database entry's app name, else the identifier; in the
\* bloatware branch description is the metadata description, else the entry's,
\* else empty; a recognised or unknown identifier takes neither from a
\* bloatware entry (present meaning non-empty).
C22_EnrichmentPrecedence ==
    pc = "classified" =>
        \A i \in 1..Len(detected) :
            LET p == detected[i]
                n == p.packageName
            IN  IF n \in BloatwareIds \ RecognisedIds
                THEN /\ p.appName = FirstOf(<<MetadataNames(n), EntryNames(n)>>, n)
                     /\ p.description
                            = FirstOf(<<MetadataDescriptions(n), EntryDescriptions(n)>>, "")
                ELSE /\ p.appName = FirstOf(<<MetadataNames(n)>>, n)
                     /\ p.description
                            = FirstOf(<<MetadataDescriptions(n)>>,
                                      IF n \in RecognisedIds THEN RecognisedFallback
                                      ELSE UnrecognisedFallback)

\* metadata and database entry disagree on a bloatware identifier, and a
\* recognised identifier has a database entry with a name of its own
C22_Witness ==
    /\ pc = "classified"
    /\ Len(detected) = 2
    /\ detected[1].packageName = "net.com.qti.tool"
    /\ detected[1].selected
    /\ EntryNames("net.com.qti.tool") = {Some("QTI Diagnostics")}
    /\ detected[1].appName = "QTI Tool"
    /\ detected[2].packageName = "com.samsung.android.bixby.service"
    /\ detected[2].category = "system"
    /\ EntryNames("com.samsung.android.bixby.service") # {}
    /\ detected[2].appName = "com.samsung.android.bixby.service"

\* the five labels in their priority order
LabelsByPriority ==
    <<"Brand-Specific Bloatware", "Chipset-Specific Bloatware", "Generic Bloatware",
      "Suspicious Packages", "Other Installed Apps">>

\* the label shown for a category
LabelOf(category) ==
    CASE category = "brand"      -> LabelsByPriority[1]
      [] category = "chipset"    -> LabelsByPriority[2]
      [] category = "generic"    -> LabelsByPriority[3]
      [] category = "suspicious" -> LabelsByPriority[4]
      [] category = "system"     -> LabelsByPriority[5]

\* C23: groupByCategory partitions the collection: every entry is in exactly
\* one group, the one of its category; the groups come in the order brand,
\* chipset, generic, suspicious, system; inside a group the entries keep the
\* order they have in the collection; no group is empty.
C23_GroupsPartition ==
    pc = "grouped" =>
        /\ \A i \in 1..Len(detectedPackages) :
               LET places == {<<g, k>> \in (1..Len(groups)) \X (1..Len(detectedPackages)) :
                                  /\ k <= Len(groups[g][2])
                                  /\ groups[g][2][k] = detectedPackages[i]}
               IN  /\ Cardinality(places) = 1
                   /\ \A pl \in places :
                          groups[pl[1]][1] = LabelOf(detectedPackages[i].category)
        /\ \A g \in 1..Len(groups) :
               /\ Len(groups[g][2]) > 0
               /\ \A k \in 1..Len(groups[g][2]) :
                      \E i \in 1..Len(detectedPackages) :
                          groups[g][2][k] = detectedPackages[i]
               /\ \A k, l \in 1..Len(groups[g][2]) :
                      k < l => FirstIndex(NamesOf(detectedPackages), groups[g][2][k].packageName)
                                   < FirstIndex(NamesOf(detectedPackages),
                                                groups[g][2][l].packageName)
        /\ \A g, h \in 1..Len(groups) :
               g < h => FirstIndex(LabelsByPriority, groups[g][1])
                            < FirstIndex(LabelsByPriority, groups[h][1])

\* a system entry first, then two brand entries around nothing else: the
\* groups are brand (in collection order) and then system
C23_Witness ==
    /\ pc = "grouped"
    /\ NamesOf(detectedPackages)
           = <<"com.android.egg", "Com.Miui.Analytics", "com.samsung.android.bixby.service">>
    /\ Len(groups) = 2
    /\ NamesOf(groups[1][2]) = <<"Com.Miui.Analytics", "com.samsung.android.bixby.service">>
    /\ NamesOf(groups[2][2]) = <<"com.android.egg">>

-----------------------------------------------------------------------------
(* Runs in time: preemption, failure, capture of the input, termination    *)

\* C24: detection is not preemptible: from the trigger of a run to its
\* completion no other action of the session (a toggle, Select All, Clear,
\* another trigger) takes effect on the collection.
C24_NotPreemptible ==
    [][ (pc # "idle" /\ pc' # "idle") => detectedPackages' = detectedPackages ]_vars

\* C25: a failure raised while the list is classified is caught at the
\* boundary: the message shown contains the failure's description, the
\* collection and the step are as before, the processing flag is down and the
\* session takes a new trigger.
C25_FailureCaught ==
    [][ \A description \in FailureDescriptions :
            DetectionFails(description)
                => /\ error' # Null
                   /\ Includes(ValueOf(error'), description)
                   /\ detectedPackages' = detectedPackages
                   /\ currentStep' = currentStep
                   /\ memo' = memo
                   /\ ~isProcessing'
                   /\ pc' = "idle"
      ]_vars

\* the first run of the session has failed: the message is up, nothing is
\* listed and the button is free
C25_Witness ==
    /\ error = Some(FailureMessage("lookup failed"))
    /\ pc = "idle"
    /\ ~isProcessing
    /\ currentStep = 1
    /\ detectedPackages = <<>>
    /\ packageInput = "package:com.android.egg"

\* C26: the collection a run installs is the classification of the text as
\* it was when the run was triggered: the trigger captures the text, what is
\* typed during the two delays changes neither the captured text nor the
\* result, and the completion installs that result.
C26_InputCapturedAtTrigger ==
    [][ /\ (pc = "idle" /\ pc' = "processingDelay") => runInput' = packageInput
        /\ (pc = "processingDelay" /\ pc' = "processingDelay") => runInput' = runInput
        /\ (pc = "processingDelay" /\ pc' = "animationDelay")
               => detected' = detectBloatware(parsePackageList(runInput), deviceData)
        /\ (pc = "animationDelay" /\ pc' = "animationDelay") => detected' = detected
        /\ (pc = "animationDelay" /\ pc' = "idle") => detectedPackages' = detected
      ]_vars

\* the text was replaced during the run: what is about to be installed is
\* not the classification of the text now in the field
C26_Witness ==
    /\ pc = "animationDelay"
    /\ Len(parsePackageList(packageInput)) > 0
    /\ NamesOf(detected) # NamesOf(detectBloatware(parsePackageList(packageInput), deviceData))

\* C27: every run that is triggered finishes with the processing flag down,
\* on each of its paths, and the flag is up only while a run is in flight.
C27_RunsFinish ==
    /\ [](isProcessing <=> pc # "idle")
    /\ (isProcessing ~> ~isProcessing)

\* a run over a listed collection has ended on the empty-input path
C27_Witness ==
    /\ ~isProcessing
    /\ pc = "idle"
    /\ error = Some(NoValidMessage)
    /\ currentStep = 2

-----------------------------------------------------------------------------
(* The step, the counters, and the search filter                           *)

\* C28: whenever the step is 2 the collection is non-empty, and once the
\* step is 2 it never goes back to 1, later failed detections included.
C28_StepTwoHasCollection ==
    /\ [](currentStep = 2 => Len(detectedPackages) > 0)
    /\ [][currentStep = 2 => currentStep' = 2]_vars

\* a detection over a listed collection has failed and the list is still there
C28_Witness ==
    /\ currentStep = 2
    /\ pc = "idle"
    /\ error # Null
    /\ Len(detectedPackages) > 0
    /\ Len(parsePackageList(packageInput)) = 0

\* C29: the three category counters add up to the length of the collection,
\* selectedCount is the number of selected entries, there are three commands
\* for each of them, and the package count shown with the commands,
\* floor(commands.length / 3), is selectedCount.
C29_CountersConsistent ==
    /\ memo.bloatwareCount + memo.suspiciousCount + memo.systemCount
           = Len(detectedPackages)
    /\ memo.selectedCount
           = Cardinality({i \in 1..Len(detectedPackages) : detectedPackages[i].selected})
    /\ Len(memo.commands) = COMMANDS_PER_PACKAGE * memo.selectedCount
    /\ packageCount(memo.commands) = memo.selectedCount

\* one of two entries is selected, by hand, and an entry outside the
\* bloatware categories is counted
C29_Witness ==
    /\ Len(detectedPackages) = 2
    /\ memo.selectedCount = 1
    /\ memo.bloatwareCount = 1
    /\ packageCount(memo.commands) = 1
    /\ \E i \in 1..2 :
           detectedPackages[i].selected # DefaultSelected(detectedPackages[i].packageName)

\* the entries of a category the filter does not list
Hidden(category) ==
    {p \in Range(GroupGet(groups, category)) :
        p \notin Range(filteredPackagesByCategory[category])}

\* C30: select-all and deselect-all of a category set every entry of the
\* category, the entries its search filter hides included, and leave the
\* other entries alone; typing a term and the filter that follows change no
\* entry's selected value.
C30_ToggleAllIgnoresFilter ==
    [][ /\ \A category \in GroupKeys(groups), selected \in BOOLEAN :
               HandleToggleAll(category, selected)
                   => /\ Len(detectedPackages') = Len(detectedPackages)
                      /\ \A i \in 1..Len(detectedPackages) :
                             detectedPackages'[i].selected
                                 = IF detectedPackages[i] \in Range(GroupGet(groups, category))
                                   THEN selected
                                   ELSE detectedPackages[i].selected
        /\ (searchTerms' # searchTerms \/ debouncedSearchTerms' # debouncedSearchTerms)
               => detectedPackages' = detectedPackages
      ]_vars

\* the filter of the one category lists one of its two entries, and the
\* entry it hides has been unselected with the other
C30_Witness ==
    /\ PackageListShown
    /\ Len(detectedPackages) = 2
    /\ \E category \in GroupKeys(groups) :
           /\ Len(GroupGet(groups, category)) = 2
           /\ Len(filteredPackagesByCategory[category]) = 1
           /\ \E p \in Hidden(category) : ~p.selected
    /\ \A i \in 1..2 : ~detectedPackages[i].selected

====
